---- MODULE Spec2Model ----
(***************************************************************************)
(* Model of app.py: the Streamlit script of the role-based chatbot and     *)
(* Image Studio.  One script run (a Streamlit rerun) is one action; the    *)
(* session state (st.session_state.history) is the only state the script   *)
(* keeps between runs.  The widget values of the run, what the run asked   *)
(* of the OpenAI client and what it put on the page are recorded so that   *)
(* properties of a run can be stated.                                      *)
(*                                                                         *)
(* Strings are sequences of atoms.  Text typed by the user has one atom    *)
(* per character; a literal of a lookup table is a single atom, since the  *)
(* script only tests it for emptiness and concatenates it.                 *)
(***************************************************************************)
EXTENDS Integers, Sequences, FiniteSets, TLC

\* ------------------------------------------------------------------ bounds
\* Script runs of one session (each run takes one tick of the clock).
MaxRuns == 3
\* Longest base text / negative text enumerated for the prompt composer.
MaxText == 2

\* ------------------------------------------------------- python primitives
Space == " "

RECURSIVE lstrip(_)
\* str.lstrip(): drop leading whitespace
lstrip(s) ==
    IF s = <<>> THEN <<>>
    ELSE IF Head(s) = Space THEN lstrip(Tail(s)) ELSE s

RECURSIVE rstrip(_)
\* str.rstrip(): drop trailing whitespace
rstrip(s) ==
    IF s = <<>> THEN <<>>
    ELSE IF s[Len(s)] = Space THEN rstrip(SubSeq(s, 1, Len(s) - 1)) ELSE s

\* str.strip()
strip(s) == rstrip(lstrip(s))

RECURSIVE join(_, _)
\* sep.join(parts)
join(sep, parts) ==
    IF parts = <<>> THEN <<>>
    ELSE IF Len(parts) = 1 THEN parts[1]
    ELSE parts[1] \o sep \o join(sep, Tail(parts))

RECURSIVE filter_nonempty(_)
\* [p for p in parts if p]
filter_nonempty(parts) ==
    IF parts = <<>> THEN <<>>
    ELSE IF Head(parts) # <<>> THEN <<Head(parts)>> \o filter_nonempty(Tail(parts))
    ELSE filter_nonempty(Tail(parts))

Digits == {"0", "1", "2", "3", "4", "5", "6", "7", "8", "9"}

DigitValue(c) ==
    CASE c = "0" -> 0 [] c = "1" -> 1 [] c = "2" -> 2 [] c = "3" -> 3
      [] c = "4" -> 4 [] c = "5" -> 5 [] c = "6" -> 6 [] c = "7" -> 7
      [] c = "8" -> 8 [] c = "9" -> 9

RECURSIVE DecimalValue(_)
DecimalValue(ds) ==
    IF ds = <<>> THEN 0
    ELSE 10 * DecimalValue(SubSeq(ds, 1, Len(ds) - 1)) + DigitValue(ds[Len(ds)])

AllDigits(ds) == ds # <<>> /\ \A i \in 1..Len(ds) : ds[i] \in Digits

\* int(s) succeeds: an optional sign, then digits, surrounding whitespace allowed
int_ok(s) ==
    LET t == strip(s) IN
    /\ t # <<>>
    /\ IF Head(t) \in {"-", "+"} THEN AllDigits(Tail(t)) ELSE AllDigits(t)

\* int(s) where it succeeds
int_value(s) ==
    LET t == strip(s) IN
    IF Head(t) = "-" THEN 0 - DecimalValue(Tail(t))
    ELSE IF Head(t) = "+" THEN DecimalValue(Tail(t))
    ELSE DecimalValue(t)

\* ------------------------------------------------------------ lookup tables
Roles == <<"Video Director", "Fashion Consultant", "Dance Coach",
           "Performing Arts Critic", "Graphic Designer", "Storyboard Artist">>

SIZES ==
    [k \in {"Square (1024x1024)", "Landscape (1344x768)", "Portrait (768x1344)",
            "Large Square (2048x2048)"} |->
        CASE k = "Square (1024x1024)" -> "1024x1024"
          [] k = "Landscape (1344x768)" -> "1344x768"
          [] k = "Portrait (768x1344)" -> "768x1344"
          [] k = "Large Square (2048x2048)" -> "2048x2048"]

STYLE_HINTS ==
    [k \in {"Cinematic", "Concept Art", "Poster Graphic", "Watercolor", "3D Render",
            "Anime"} |->
        CASE k = "Cinematic" ->
               <<"cinematic lighting, shallow depth of field, filmic color grading, dramatic composition">>
          [] k = "Concept Art" ->
               <<"highly detailed concept art, artstation quality, mood painting, volumetric light">>
          [] k = "Poster Graphic" ->
               <<"bold poster design, vector-like clarity, balanced negative space, strong typography placeholders">>
          [] k = "Watercolor" ->
               <<"soft watercolor texture, natural paper grain, gentle bleeding edges">>
          [] k = "3D Render" ->
               <<"physically-based rendering, soft studio lighting, subsurface scattering">>
          [] k = "Anime" ->
               <<"clean line art, cel shading, expressive character styling">>]

role_instructions_table ==
    [k \in {"Video Director", "Fashion Consultant", "Dance Coach",
            "Performing Arts Critic", "Graphic Designer", "Storyboard Artist"} |->
        CASE k = "Video Director" ->
               <<"Compose shots like a storyboard frame; emphasize emotion, blocking, and lighting motivation.">>
          [] k = "Fashion Consultant" ->
               <<"Focus on outfit silhouette, fabric texture, and color harmony; editorial styling.">>
          [] k = "Dance Coach" ->
               <<"Capture dynamic body lines, rhythm, and motion arcs; sense of stage lighting.">>
          [] k = "Performing Arts Critic" ->
               <<"Emphasize atmosphere, dramaturgy, and audience perspective.">>
          [] k = "Graphic Designer" ->
               <<"Prioritize layout balance, iconic shapes, and color contrast; print-friendly.">>
          [] k = "Storyboard Artist" ->
               <<"Clear framing, character poses, arrows for motion; readable beat.">>]

\* dict.get(key, ""): the entry, or the empty string for a missing key
dict_get(table, key) == IF key \in DOMAIN table THEN table[key] ELSE <<>>

\* ---------------------------------------------------------- prompt composer
CommaSpace == <<",", " ">>

\* mutant of style_parts: the role clause is appended before the style clause
style_parts_role_first(role_name, base, style_key) ==
    LET style == dict_get(STYLE_HINTS, style_key)
        role_instructions == dict_get(role_instructions_table, role_name)
    IN  <<base>>
          \o (IF role_instructions # <<>> THEN <<role_instructions>> ELSE <<>>)
          \o (IF style # <<>> THEN <<style>> ELSE <<>>)

\* parts = [base]; the style and the role clause are appended when non-empty
style_parts(role_name, base, style_key) ==
    LET style == dict_get(STYLE_HINTS, style_key)
        role_instructions == dict_get(role_instructions_table, role_name)
    IN  <<base>>
          \o (IF style # <<>> THEN <<style>> ELSE <<>>)
          \o (IF role_instructions # <<>> THEN <<role_instructions>> ELSE <<>>)

style_prompt(role_name, base, style_key) ==
    join(CommaSpace, filter_nonempty(style_parts(role_name, base, style_key)))

AvoidOpen == <<".", " ", "A", "v", "o", "i", "d", ":", " ">>
AvoidClose == <<".">>

\* mutant of final_prompt: the Avoid clause is built from the untrimmed text
final_prompt_untrimmed(role, base_prompt, style, negative_prompt) ==
    LET composed == style_prompt(role, strip(base_prompt), style) IN
    IF negative_prompt # <<>>
    THEN composed \o AvoidOpen \o negative_prompt \o AvoidClose
    ELSE composed

\* final_prompt = style_prompt(...); final_prompt += f". Avoid: {neg}." when neg
final_prompt(role, base_prompt, style, negative_prompt) ==
    LET composed == style_prompt(role, strip(base_prompt), style) IN
    IF strip(negative_prompt) # <<>>
    THEN composed \o AvoidOpen \o strip(negative_prompt) \o AvoidClose
    ELSE composed

\* ------------------------------------------------------------ session state
VARIABLES
    history,    \* st.session_state.history: GenResult records, newest first
    now,        \* time.time(), in ticks; one script run takes one tick
    inp,        \* the widget values and the buttons of the last script run
    client,     \* what get_client returned in the last run ("unused": not called)
    gen,        \* <<>>, or <<r>> with r the outcome of client.images.generate
    sent,       \* <<>>, or <<q>> with q the request given to client.images.generate
    calls,      \* number of client.images.generate calls of the session
    log,        \* every GenResult the session constructed, oldest first
    ui,         \* what the last script run put on the page
    composer    \* the prompt composer applied to free inputs (SpecCompose)

vars == <<history, now, inp, client, gen, sent, calls, log, ui, composer>>

\* Optional[...]: None is <<>>, a value v is <<v>>
None == <<>>
Some(v) == <<v>>

GenParams(prompt, negative_prompt, style, size, n_images, seed, bg_transparent, quality) ==
    [prompt |-> prompt, negative_prompt |-> negative_prompt, style |-> style,
     size |-> size, n_images |-> n_images, seed |-> seed,
     bg_transparent |-> bg_transparent, quality |-> quality]

GenResult(timestamp, params, images_b64) ==
    [timestamp |-> timestamp, params |-> params, images_b64 |-> images_b64]

\* ------------------------------------------------------------------ helpers
\* get_client(_key): None without a key or when OpenAI(...) raises
get_client(key, init_ok) ==
    IF key = <<>> THEN "None" ELSE IF init_ok THEN "client" ELSE "None"

\* base64 PNG payloads the collaborator may return, and what they decode to
PngPayload == "UE5HMQ=="
MalformedPayload == "UE5HMQ"

\* b64_to_pil(b64png): the image, or an exception from b64decode / Image.open
b64_to_pil(b64png) ==
    IF b64png = PngPayload THEN [ok |-> TRUE, image |-> "PNG1"]
    ELSE [ok |-> FALSE, image |-> "binascii.Error"]

\* mutant of seed_val: an unparseable seed becomes seed 0 instead of None
seed_val_zero(seed_opt) ==
    IF strip(seed_opt) = <<>> THEN None
    ELSE IF int_ok(strip(seed_opt)) THEN Some(int_value(strip(seed_opt)))
    ELSE Some(0)

\* seed_val: None for a blank or unparseable text, else int(seed_opt.strip())
seed_val(seed_opt) ==
    IF strip(seed_opt) # <<>> /\ int_ok(strip(seed_opt))
    THEN Some(int_value(strip(seed_opt))) ELSE None

\* the ValueError branch: st.warning("Seed must be an integer. Ignoring.")
seed_warning(seed_opt) ==
    IF strip(seed_opt) # <<>> /\ ~int_ok(strip(seed_opt))
    THEN << <<"warning", "Seed must be an integer. Ignoring.">> >> ELSE <<>>

\* mutant of history_insert: history.append(result)
history_append(h, result) == Append(h, result)

\* st.session_state.history.insert(0, result)
history_insert(h, result) == <<result>> \o h

\* ------------------------------------------------------------------- render
\* index of the first payload of imgs that b64_to_pil raises on, 0 if none
FirstUndecodable(imgs) ==
    LET bad == {j \in 1..Len(imgs) : ~b64_to_pil(imgs[j]).ok} IN
    IF bad = {} THEN 0 ELSE CHOOSE j \in bad : \A k \in bad : j <= k

\* index of the first entry of h holding such a payload, 0 if none
FirstUndecodableEntry(h) ==
    LET bad == {i \in 1..Len(h) : FirstUndecodable(h[i].images_b64) # 0} IN
    IF bad = {} THEN 0 ELSE CHOOSE i \in bad : \A k \in bad : i <= k

\* the "Run #..." label of the entry at 0-based position idx
run_label(h, idx) == Len(h) - idx

\* "Results (latest run)" and the "Generation History" expander.  An exception of
\* b64_to_pil is not caught: it ends the script run where it is raised.
render(h) ==
    IF h = <<>>
    THEN [latest |-> None, gallery |-> 0, labels |-> <<>>, aborted |-> FALSE,
          no_images_info |-> TRUE]
    ELSE
      LET latest == h[1]
          g == FirstUndecodable(latest.images_b64)
          e == FirstUndecodableEntry(h)
      IN  IF g # 0
          THEN [latest |-> Some(latest), gallery |-> g - 1, labels |-> <<>>,
                aborted |-> TRUE, no_images_info |-> FALSE]
          ELSE [latest |-> Some(latest), gallery |-> Len(latest.images_b64),
                labels |-> [i \in 1..(IF e = 0 THEN Len(h) ELSE e) |-> run_label(h, i - 1)],
                aborted |-> (e # 0), no_images_info |-> FALSE]

\* ----------------------------------------------------------- the script run
\* Tab 1: the "Generate Response" button
chat_tab(api_key, role, chat_btn) ==
    IF ~chat_btn THEN <<>>
    ELSE IF api_key = <<>>
    THEN << <<"warning", "Please enter your OpenAI API Key in the sidebar.">> >>
    ELSE << <<"write", role>> >>

\* the keyword arguments of client.images.generate
generate_request(w) ==
    [model |-> "gpt-image-1",
     prompt |-> final_prompt(w.role, w.base_prompt, w.style, w.negative_prompt),
     size |-> SIZES[w.size_label],
     n |-> w.n_images,
     background |-> IF w.bg_transparent THEN "transparent" ELSE "white",
     quality |-> w.quality,
     seed |-> seed_val(w.seed_opt)]

\* params = GenParams(...) of the submit
submit_params(w) ==
    GenParams(strip(w.base_prompt), strip(w.negative_prompt), w.style,
              SIZES[w.size_label], w.n_images, seed_val(w.seed_opt),
              w.bg_transparent, w.quality)

\* mutant of no_prompt: the prompt is tested without .strip()
no_prompt_untrimmed(w) == w.base_prompt = <<>>

\* "if not api_key" / "elif not base_prompt.strip()" / "if not client"
no_api_key(w) == w.api_key = <<>>
no_prompt(w) == strip(w.base_prompt) = <<>>
no_client(w, init_ok) == get_client(w.api_key, init_ok) = "None"

\* a branch that ends the submit before the client is asked for anything
rejected(h, client_state, text) ==
    [history |-> h, client |-> client_state, gen |-> None, sent |-> None,
     ncalls |-> 0, made |-> <<>>, msgs |-> << <<"error", text>> >>]

\* mutant of generate_failed: the entry is stored although the call raised
generate_failed_recorded(w, h, r) ==
    [history |-> <<GenResult(0, submit_params(w), <<>>)>> \o h, client |-> "client",
     gen |-> Some(r), sent |-> Some(generate_request(w)), ncalls |-> 1, made |-> <<>>,
     msgs |-> << <<"info", "Generating images...">>, <<"exception", r.cause>> >>]

\* mutant of generate_failed: the call is tried a second time before giving up
generate_failed_retried(w, h, r) ==
    [history |-> h, client |-> "client", gen |-> Some(r),
     sent |-> Some(generate_request(w)), ncalls |-> 2, made |-> <<>>,
     msgs |-> << <<"info", "Generating images...">>, <<"exception", r.cause>> >>]

\* client.images.generate raised: "except Exception as e: st.exception(e)"
generate_failed(w, h, r) ==
    [history |-> h, client |-> "client", gen |-> Some(r),
     sent |-> Some(generate_request(w)), ncalls |-> 1, made |-> <<>>,
     msgs |-> << <<"info", "Generating images...">>, <<"exception", r.cause>> >>]

\* client.images.generate returned: the payloads are stored as they came
generate_returned(w, h, t, r) ==
    LET images_b64 == r.data
        result == GenResult(t, submit_params(w), images_b64)
    IN  [history |-> history_insert(h, result), client |-> "client", gen |-> Some(r),
         sent |-> Some(generate_request(w)), ncalls |-> 1, made |-> <<result>>,
         msgs |-> << <<"info", "Generating images...">>,
                     <<"success", "Done! See results below.">> >>]

\* The "Generate Images" block of one run: the guard that stopped it, or the call
\* and its outcome.  r is the outcome of client.images.generate when it is reached:
\* [ok |-> FALSE, cause |-> c] raises, [ok |-> TRUE, data |-> d] returns d.
submit(w, h, t, init_ok, r) ==
    IF ~w.run
    THEN [history |-> h, client |-> "unused", gen |-> None, sent |-> None,
          ncalls |-> 0, made |-> <<>>, msgs |-> <<>>]
    ELSE IF no_api_key(w)
    THEN rejected(h, "unused", "Please enter your OpenAI API Key in the sidebar.")
    ELSE IF no_prompt(w)
    THEN rejected(h, "unused", "Please enter a prompt.")
    ELSE IF no_client(w, init_ok)
    THEN rejected(h, "None", "Invalid API Key or client initialization failed.")
    ELSE IF ~r.ok THEN generate_failed(w, h, r)
    ELSE generate_returned(w, h, t, r)

\* One run of the script, top to bottom, with the widget values w.  (The actions
\* that start a run stop after MaxRuns runs.)
ScriptRun(w, init_ok, r) ==
    LET s == submit(w, history, now, init_ok, r) IN
    /\ now' = now + 1
    /\ inp' = w
    /\ history' = s.history
    /\ client' = s.client
    /\ gen' = s.gen
    /\ sent' = s.sent
    /\ calls' = calls + s.ncalls
    /\ log' = log \o s.made
    /\ ui' = [msgs |-> chat_tab(w.api_key, w.role, w.chat_btn)
                         \o seed_warning(w.seed_opt) \o s.msgs]
             @@ render(s.history)
    /\ UNCHANGED composer

\* -------------------------------------------------------- enumerated inputs
SliderMin == 1
SliderMax == 8
SliderDefault == 4

ApiKeys == {<<>>, <<"sk-test">>}
BasePrompts == {<<>>, <<" ">>, <<" ", "a">>}
SeedTexts == {<<>>, <<" ">>, <<" ", "7">>, <<"7", "x">>}
Variations == {n \in SliderMin..SliderMax : n <= SliderMin + 1}

\* the widget values of the first load
DefaultWidgets ==
    [api_key |-> <<>>, role |-> Roles[1], chat_btn |-> FALSE, base_prompt |-> <<>>,
     negative_prompt |-> <<>>, style |-> "Cinematic",
     size_label |-> "Square (1024x1024)", n_images |-> SliderDefault,
     seed_opt |-> <<>>, bg_transparent |-> FALSE, quality |-> "standard",
     run |-> FALSE]

\* widget values a user may have set when a run starts
WidgetValues ==
    {[DefaultWidgets EXCEPT !.api_key = k, !.base_prompt = b, !.seed_opt = sd,
                            !.n_images = n] :
        k \in ApiKeys, b \in BasePrompts, sd \in SeedTexts, n \in Variations}

\* outcomes of client.images.generate: an exception, or a response whose data
\* holds any number of payloads, each decodable or not
Causes == {"APIConnectionError", "BadRequestError"}
Batches == {<<PngPayload>>, <<MalformedPayload, PngPayload>>}
Outcomes ==
    {[ok |-> FALSE, cause |-> c, data |-> <<>>] : c \in Causes}
      \cup {[ok |-> TRUE, cause |-> "", data |-> d] : d \in Batches}
NoOutcome == [ok |-> FALSE, cause |-> "", data |-> <<>>]

ComposerIdle ==
    [role |-> "", style |-> "", base |-> <<>>, negative |-> <<>>,
     clauses |-> <<>>, final |-> <<>>, pc |-> "idle"]

\* what the environment decides in a run: whether OpenAI(api_key=...) raises, asked
\* only when get_client is reached with a key, and the outcome of
\* client.images.generate, asked only when the call is reached
InitOutcomes(w) ==
    IF no_api_key(w) \/ no_prompt(w) THEN {FALSE} ELSE BOOLEAN
GenerateOutcomes(w, init_ok) ==
    IF no_api_key(w) \/ no_prompt(w) \/ no_client(w, init_ok)
    THEN {NoOutcome} ELSE Outcomes

\* ------------------------------------------------------------ specification
\* The session after the first load of the page.
Init ==
    /\ history = <<>>
    /\ now = 0
    /\ inp = DefaultWidgets
    /\ client = "unused"
    /\ gen = None
    /\ sent = None
    /\ calls = 0
    /\ log = <<>>
    /\ ui = [msgs |-> <<>>] @@ render(<<>>)
    /\ composer = ComposerIdle

\* the user presses "Generate Images"
ClickGenerateImages ==
    /\ now < MaxRuns
    /\ \E w \in WidgetValues :
          \E init_ok \in InitOutcomes(w) :
              \E r \in GenerateOutcomes(w, init_ok) :
                  ScriptRun([w EXCEPT !.run = TRUE], init_ok, r)

\* the user presses "Generate Response" on the chat tab
ClickGenerateResponse ==
    /\ now < MaxRuns
    /\ \E w \in WidgetValues :
          ScriptRun([w EXCEPT !.chat_btn = TRUE], FALSE, NoOutcome)

\* the user changes a widget: the script reruns with no button pressed
EditWidget ==
    /\ now < MaxRuns
    /\ \E w \in WidgetValues : ScriptRun(w, FALSE, NoOutcome)

Next == ClickGenerateImages \/ ClickGenerateResponse \/ EditWidget

Spec == Init /\ [][Next]_vars

\* ---------------------------------------------- the prompt composer, alone
Texts(alphabet, n) == UNION {[1..k -> alphabet] : k \in 0..n}
ComposeRoles == DOMAIN role_instructions_table \cup {"Unknown Role"}
ComposeStyles == DOMAIN STYLE_HINTS \cup {"Unknown Style"}

InitCompose ==
    /\ history = <<>>
    /\ now = 0
    /\ inp = DefaultWidgets
    /\ client = "unused"
    /\ gen = None
    /\ sent = None
    /\ calls = 0
    /\ log = <<>>
    /\ ui = [msgs |-> <<>>] @@ render(<<>>)
    /\ composer \in
         {[role |-> ro, style |-> st, base |-> b, negative |-> ng,
           clauses |-> <<>>, final |-> <<>>, pc |-> "input"] :
            ro \in ComposeRoles, st \in ComposeStyles,
            b \in Texts({" ", "a", ","}, MaxText), ng \in Texts({" ", "b"}, MaxText)}

\* lines 193-195 on the composer's inputs
Compose ==
    /\ composer.pc = "input"
    /\ composer' =
         [composer EXCEPT
            !.clauses = style_prompt(composer.role, strip(composer.base), composer.style),
            !.final = final_prompt(composer.role, composer.base, composer.style,
                                   composer.negative),
            !.pc = "done"]
    /\ UNCHANGED <<history, now, inp, client, gen, sent, calls, log, ui>>

NextCompose == Compose

SpecCompose == InitCompose /\ [][NextCompose]_vars

\* ------------------------------------------------------------------ claims
HasMsg(u, kind, text) == \E i \in 1..Len(u.msgs) : u.msgs[i] = <<kind, text>>
HasKind(u, kind) == \E i \in 1..Len(u.msgs) : u.msgs[i][1] = kind
KeyError == "Please enter your OpenAI API Key in the sidebar."
PromptError == "Please enter a prompt."
SeedWarning == "Seed must be an integer. Ignoring."
BlankPrompt(w) == strip(w.base_prompt) = <<>>
InvalidSeed(w) == strip(w.seed_opt) # <<>> /\ ~int_ok(strip(w.seed_opt))
CallFailed(g) == g # None /\ ~g[1].ok
CallReturned(g) == g # None /\ g[1].ok
Descending(n) == [i \in 1..n |-> n + 1 - i]

\* C1: the history holds exactly the results of the successful generations of the
\* session, newest first (the reverse of the order they were made in, nothing
\* dropped, merged or moved); the latest result shown is the head of the history,
\* and with an empty history no latest result is shown.
C1_HistoryNewestFirst ==
    /\ Len(history) = Len(log)
    /\ \A i \in 1..Len(history) : history[i] = log[Len(log) + 1 - i]
    /\ \A i \in 1..Len(history) : \A j \in 1..Len(history) :
          i < j => history[i].timestamp > history[j].timestamp
    /\ ui.latest = (IF history = <<>> THEN None ELSE Some(history[1]))
    /\ ui.no_images_info = (history = <<>>)

\* two successful generations with different results, then a rejected submit
C1_Witness ==
    /\ Len(history) = 2
    /\ history[1].images_b64 # history[2].images_b64
    /\ inp.run /\ sent = None

\* C2: a submit that reaches client.images.generate and whose call raises leaves
\* the history as it was, shows the exception with its cause and shows no success
\* message.
C2_FailedCallKeepsHistory ==
    [][CallFailed(gen') =>
          /\ history' = history
          /\ HasMsg(ui', "exception", gen'[1].cause)
          /\ ~HasKind(ui', "success")]_vars

\* a call that raised while the history held an entry
C2_Witness == CallFailed(gen) /\ inp.run /\ history # <<>>

\* C3 as stated: every submit with a blank prompt, whatever the API key, makes no
\* call, shows the prompt error and leaves the size of the history unchanged.
C3_BlankPromptAlwaysPromptError ==
    [][(inp'.run /\ BlankPrompt(inp')) =>
          /\ sent' = None /\ calls' = calls
          /\ HasMsg(ui', "error", PromptError)
          /\ Len(history') = Len(history)]_vars

\* C3 amended: every submit with a blank prompt makes no call and leaves the
\* history unchanged; it shows the prompt error when an API key is present and the
\* missing-key error (and no prompt error) when the key is empty.
C3_BlankPromptRejected ==
    [][(inp'.run /\ BlankPrompt(inp')) =>
          /\ sent' = None /\ calls' = calls /\ client' = "unused"
          /\ history' = history
          /\ HasMsg(ui', "error", PromptError) = (inp'.api_key # <<>>)
          /\ HasMsg(ui', "error", KeyError) = (inp'.api_key = <<>>)]_vars

\* a whitespace-only prompt submitted with a key, the history holding an entry
C3_Witness ==
    /\ inp.run /\ BlankPrompt(inp) /\ inp.base_prompt # <<>> /\ inp.api_key # <<>>
    /\ history # <<>>
    /\ HasMsg(ui, "error", PromptError)

\* C4 as stated: a submit with a seed text that is not blank and not an integer is
\* answered with a message and leaves the history unchanged.
C4_InvalidSeedKeepsHistory ==
    [][(inp'.run /\ InvalidSeed(inp')) =>
          (HasMsg(ui', "warning", SeedWarning) /\ history' = history)]_vars

\* C4 amended: such a submit shows the warning and goes on with no seed: a request
\* that is sent carries seed None, and the history is either unchanged or, when the
\* generation returns, has one new entry at its head whose params record seed None.
C4_InvalidSeedIgnored ==
    [][(inp'.run /\ InvalidSeed(inp')) =>
          /\ HasMsg(ui', "warning", SeedWarning)
          /\ sent' # None => sent'[1].seed = None
          /\ IF CallReturned(gen')
             THEN /\ Len(history') = Len(history) + 1
                  /\ Tail(history') = history
                  /\ history'[1].params.seed = None
             ELSE history' = history]_vars

\* a generation that returned although the seed text was "7x"
C4_Witness == inp.run /\ InvalidSeed(inp) /\ CallReturned(gen) /\ history # <<>>

\* C5: every payload of every history entry decodes, and no render is cut short by
\* a payload that does not (stored entries stay displayable).
C5_OnlyDecodableEntries ==
    /\ \A i \in 1..Len(history) : FirstUndecodable(history[i].images_b64) = 0
    /\ ~ui.aborted

\* C6: for a non-empty trimmed base text the composed clause string is the base
\* text, then ", " and the style hint when the style key has one, then ", " and the
\* role instruction when the role has one; the base text is its prefix.
C6_ClauseOrder ==
    (composer.pc = "done" /\ strip(composer.base) # <<>>) =>
        LET b == strip(composer.base)
            st == IF composer.style \in DOMAIN STYLE_HINTS
                  THEN STYLE_HINTS[composer.style] ELSE <<>>
            ro == IF composer.role \in DOMAIN role_instructions_table
                  THEN role_instructions_table[composer.role] ELSE <<>>
        IN  /\ composer.clauses =
                 b \o (IF st = <<>> THEN <<>> ELSE <<",", " ">> \o st)
                   \o (IF ro = <<>> THEN <<>> ELSE <<",", " ">> \o ro)
            /\ SubSeq(composer.clauses, 1, Len(b)) = b

\* a known role with an unknown style key, the base text typed with a leading space
C6_Witness ==
    /\ composer.pc = "done" /\ strip(composer.base) # <<>>
    /\ composer.style = "Unknown Style" /\ composer.role = "Storyboard Artist"
    /\ composer.base # strip(composer.base)
    /\ Len(composer.clauses) = 4

\* C7: the final prompt is the comma-joined clause string followed by ". Avoid: ",
\* the trimmed negative text and "." when the trimmed negative text is non-empty,
\* and the clause string alone otherwise.
C7_AvoidClauseLast ==
    composer.pc = "done" =>
        LET neg == strip(composer.negative) IN
        composer.final =
            IF neg = <<>> THEN composer.clauses
            ELSE composer.clauses \o <<".", " ", "A", "v", "o", "i", "d", ":", " ">>
                   \o neg \o <<".">>

\* a negative text with surrounding whitespace, composed
C7_Witness ==
    /\ composer.pc = "done" /\ strip(composer.base) # <<>>
    /\ strip(composer.negative) # <<>> /\ composer.negative # strip(composer.negative)
    /\ composer.final # composer.clauses

\* C8: a script run makes one call of client.images.generate when it is a submit
\* with an API key, a non-blank prompt and a client that initialised, and none
\* otherwise; so no run makes two calls, and a run with no submit makes none.
C8_OneCallPerSubmit ==
    [][LET reached == /\ inp'.run /\ inp'.api_key # <<>> /\ ~BlankPrompt(inp')
                      /\ client' = "client"
       IN  /\ calls' = calls + (IF reached THEN 1 ELSE 0)
           /\ (sent' # None) = reached
           /\ (gen' # None) = reached]_vars

\* three runs of which two made a call that raised and one made no call
C8_Witness == calls = 2 /\ now = 3 /\ CallFailed(gen) /\ Len(history) = 0

\* C9: every history entry holds as many payloads as its params' n_images, which
\* is a slider position.
C9_FullBatchOnly ==
    \A i \in 1..Len(history) :
        /\ history[i].params.n_images \in SliderMin..SliderMax
        /\ Len(history[i].images_b64) = history[i].params.n_images

\* C10: a render of a non-empty history labels its entries n, n-1, ..., 1 from top
\* to bottom, the entry made by the k-th successful generation carrying k.
C10_RunLabels ==
    history # <<>> =>
        /\ ui.labels = Descending(Len(history))
        /\ \A i \in 1..Len(history) : history[i] = log[ui.labels[i]]

\* the labels a render does show are the leading ones of n, n-1, ..., 1, and each
\* is the ordinal of the generation that made its entry
RunLabelsShown ==
    /\ Len(ui.labels) <= Len(history)
    /\ \A i \in 1..Len(ui.labels) :
          ui.labels[i] = Len(history) + 1 - i /\ history[i] = log[ui.labels[i]]
    /\ (~ui.aborted /\ history # <<>>) => Len(ui.labels) = Len(history)

====
